---- MODULE Spec2Model ----
(***************************************************************************)
(* Model of the client-side multipart upload orchestrators of              *)
(* src/uploader-presigned.js:                                              *)
(*   S3MultipartUploaderPresigned        mode "upfront"                    *)
(*   S3MultipartUploaderDirectPresigned  mode "direct"                     *)
(*   S3MultipartUploader                 mode "lazy"                       *)
(* One uploader instance, one upload() call, any number of abort() calls.  *)
(* Every action is one run-to-completion step of the JavaScript event      *)
(* loop: a caller's call, or the arrival of a network response / timer     *)
(* together with all promise continuations it triggers.                    *)
(***************************************************************************)
EXTENDS Integers, Sequences, FiniteSets, TLC

\* JavaScript null / undefined
None == "none"

---------------------------------------------------------------------------
\* Bounds of the exploration
MaxFileSize == 6
MaxRetriesCfg == 2
MaxAborts == 1
\* explored configurations plan at most MaxAttempts part attempts in total
MaxAttempts == 6

\* abort-upload and complete-upload requests made to one handler
MaxCalls == 2

\* file sizes and attempts explored with an onProgress callback that throws
MaxFileSizeThrowing == 2
MaxRetriesThrowing == 2

\* this.retryDelay = options.retryDelay || 1000 (milliseconds)
retryDelay == 1000

\* const maxConcurrent = 5 in every upload()
maxConcurrent == 5

Modes == {"upfront", "direct", "lazy"}

\* Chunk sizes the uploader is configured with (in units of one byte block)
ChunkSizes == {1, 2}

\* Session ids the authorization service can issue
UploadIds == {"u1"}

\* The double-quote character of an ETag header value
Quote == "q"

\* Values of the ETag response header of a successful PUT: absent, only
\* quotes, a quoted tag
Header(v) == [present |-> TRUE, value |-> v]
NoHeader == [present |-> FALSE, value |-> <<>>]
EtagHeaders ==
    {NoHeader, Header(<<Quote, Quote>>), Header(<<Quote, "e", Quote>>)}

---------------------------------------------------------------------------
VARIABLES
    mode,          \* which uploader class the instance is
    fileSize,      \* file.size
    chunkSize,     \* this.chunkSize
    maxRetries,    \* this.maxRetries
    uploadId,      \* this.uploadId
    presignedUrls, \* this.presignedUrls: sequence of [partNumber, url]
    aborted,       \* this.aborted
    pc,            \* position of the upload() call
    batchI,        \* loop variable i of the batch loop
    slots,         \* per dispatched index: state of uploadSinglePart/uploadPart
    partsArray,    \* partsArray: defined 0-based indices -> part record
    error,         \* the error upload() rejects with
    result,        \* the value upload() resolves with
    cancelCalls,   \* cancel requests sent, each the uploadId it carries
    finalizeCalls, \* finalize requests sent: [uploadId, parts]
    abortCalls,    \* number of abort() calls made by the caller
    abortedEarly,  \* abort() was called during upload() before any part completed
    abortedMid,    \* abort() was called while parts were being transferred
    outOfOrder,    \* a part completed before a lower-numbered part had
    sessionCalls,  \* create-session requests sent (getPresignedUrls / initiateUpload)
    cancelLogged,  \* abortUpload caught a failure of its request and logged it
    unhandled,     \* an abortUpload promise fired by abort() rejects, unhandled
    abortPending,  \* cancel requests fired by abort() whose fetch has not settled
    lastPhase,     \* phase of the last progress event passed to onProgress
    progress,      \* progress field of that event, as a fraction num / den
    progressDrops, \* phases of the events that reported less than the event before
    phaseLog,      \* phases of the events so far, a repeated phase listed once
    errorEmitted,  \* the catch block of upload() has emitted its 'error' event
    server         \* one call of the create-session handler (handleInitiate)

vars == <<mode, fileSize, chunkSize, maxRetries, uploadId, presignedUrls,
          aborted, pc, batchI, slots, partsArray, error, result,
          cancelCalls, finalizeCalls, abortCalls, abortedEarly, abortedMid,
          outOfOrder, sessionCalls, cancelLogged, unhandled, abortPending,
          lastPhase, progress, progressDrops, phaseLog, errorEmitted, server>>

\* the state of the uploader in the browser
clientVars == <<mode, fileSize, chunkSize, maxRetries, uploadId, presignedUrls,
                aborted, pc, batchI, slots, partsArray, error, result,
                cancelCalls, finalizeCalls, abortCalls, abortedEarly, abortedMid,
                outOfOrder, sessionCalls, cancelLogged, unhandled,
                abortPending, lastPhase, progress, progressDrops, phaseLog, errorEmitted>>

cancelObs == <<cancelLogged, unhandled, abortPending>>

progressObs == <<progress, progressDrops, phaseLog>>

config == <<mode, fileSize, chunkSize, maxRetries>>

---------------------------------------------------------------------------
\* Math.ceil(a / b) for a >= 0, b > 0
Ceil(a, b) == (a + b - 1) \div b

Min(a, b) == IF a < b THEN a ELSE b

\* Mutant of PlannedParts: Math.floor(file.size / this.chunkSize) + 1
PlannedPartsFloor(fs, cs) == (fs \div cs) + 1

\* Math.ceil(file.size / this.chunkSize)
PlannedParts(fs, cs) == Ceil(fs, cs)

\* SampleUploaderUI.startUpload: chunkSize = Math.ceil(fileSize / totalParts)
DerivedChunkSize(fs, n) == Ceil(fs, n)

\* uploadSinglePart: start = (partNumber - 1) * this.chunkSize
ChunkStart(pn, cs) == (pn - 1) * cs

\* uploadSinglePart: end = Math.min(start + this.chunkSize, file.size)
ChunkEnd(pn, cs, fs) == Min(ChunkStart(pn, cs) + cs, fs)

\* etag = headers.get('ETag')?.replace(/"/g, '') : undefined stays undefined
StripQuotes(h) ==
    IF h.present THEN Header(SelectSeq(h.value, LAMBDA c : c # Quote)) ELSE NoHeader

\* Mutant of EtagMissing: only an absent header counts (etag === undefined)
EtagMissingUndefinedOnly(h) == ~StripQuotes(h).present

\* !etag : undefined and the empty string are falsy
EtagMissing(h) == ~StripQuotes(h).present \/ StripQuotes(h).value = <<>>

\* Token lists: n tokens numbered 1..n in ascending / descending order
AscTokens(n) == [k \in 1..n |-> [partNumber |-> k, url |-> k]]
DescTokens(n) == [k \in 1..n |-> [partNumber |-> n + 1 - k, url |-> n + 1 - k]]

\* the url of a token that has no url field (undefined); real urls are 1, 2, ...
NoUrl == 0

\* n tokens numbered 1..n of which the first lacks its url
NoUrlTokens(n) == [k \in 1..n |-> [partNumber |-> k, url |-> IF k = 1 THEN NoUrl ELSE k]]

\* presignedUrls.sort((a, b) => a.partNumber - b.partNumber): stable insertion
RECURSIVE InsertToken(_, _)
InsertToken(t, s) ==
    IF s = <<>> THEN <<t>>
    ELSE IF t.partNumber < Head(s).partNumber THEN <<t>> \o s
    ELSE <<Head(s)>> \o InsertToken(t, Tail(s))

RECURSIVE SortTokens(_)
SortTokens(s) ==
    IF s = <<>> THEN <<>>
    ELSE InsertToken(s[Len(s)], SortTokens(SubSeq(s, 1, Len(s) - 1)))

\* Token lists a caller can hand to initialize(): well formed in either
\* order, with a duplicated part number, with a gap
DupTokens == <<[partNumber |-> 1, url |-> 1], [partNumber |-> 1, url |-> 2]>>
GapTokens == <<[partNumber |-> 1, url |-> 1], [partNumber |-> 3, url |-> 3]>>
DirectTokenLists ==
    {AscTokens(n) : n \in 1..3}
        \cup {DescTokens(n) : n \in 2..3}
        \cup {DupTokens, GapTokens}

\* n tokens that all carry part number 1 (a response whose numbering is wrong)
SameNumberTokens(n) == [k \in 1..n |-> [partNumber |-> 1, url |-> k]]

\* Bodies of the create-session response in upfront mode for a request of
\* n parts: HTTP failure, or a JSON body with or without uploadId and with
\* no, n or n+1 presigned URLs, or n of which one has no url or which are
\* all numbered 1
UpfrontResponses(n) ==
    {[ok |-> FALSE, uploadId |-> None, hasUrls |-> FALSE, presignedUrls |-> <<>>]}
        \cup {[ok |-> TRUE, uploadId |-> u, hasUrls |-> FALSE, presignedUrls |-> <<>>] :
                u \in UploadIds \cup {None}}
        \cup {[ok |-> TRUE, uploadId |-> u, hasUrls |-> TRUE, presignedUrls |-> t] :
                u \in UploadIds \cup {None},
                t \in {AscTokens(n), DescTokens(n), AscTokens(n + 1), NoUrlTokens(n),
                        SameNumberTokens(n)}}

\* Bodies of the initiate response in lazy mode
LazyResponses ==
    {[ok |-> FALSE, uploadId |-> None]}
        \cup {[ok |-> TRUE, uploadId |-> u] : u \in UploadIds \cup {None}}

\* Bodies the finalize endpoint can answer with
FinalizeResults == {"location1"}

\* Errors, named by the taxonomy kind of the thrown Error's message; index is
\* the 1-based index of the part whose uploadPart threw it (0: no part)
Err(kind, index) == [kind |-> kind, index |-> index]
NoError == Err(None, 0)
AbortedErr == Err("AbortedError", 0)

---------------------------------------------------------------------------
\* State of one uploadSinglePart call (waits: the backoff delays set so far)
NewSlot == [phase |-> "pending", retries |-> 0, waits |-> <<>>]

\* setTimeout(resolve, this.retryDelay * retries): the delay after the
\* retries-th failed attempt
Backoff(retries) == retryDelay * retries

\* const totalParts
totalParts == Len(slots)

\* partNumber handed to uploadSinglePart for 1-based index k
PartNumberOf(k) ==
    IF mode = "direct" THEN presignedUrls[k].partNumber ELSE k

\* Mutant of BatchIndices: the inner loop without its j < maxConcurrent bound
BatchIndicesUnbounded(i, n) == {k \in 1..n : i < k}

\* the indices i+j+1 of the batch starting at loop variable i
BatchIndices(i, n) == {k \in 1..n : i < k /\ k <= i + maxConcurrent}

\* Mutant of FirstPhase: the lazy uploader transfers without asking for a token
FirstPhaseAlwaysPut == "put"

\* first await of uploadPart: the token request (lazy) or the PUT
FirstPhase == IF mode = "lazy" THEN "token" ELSE "put"

\* uploadSinglePart up to its first await: refuses when aborted
uploadSinglePart(slot, ab) ==
    IF ab THEN [slot EXCEPT !.phase = "refused"]
    ELSE [slot EXCEPT !.phase = FirstPhase]

\* the inner for loop pushing uploadSinglePart(...) for one batch
DispatchBatch(s, i, ab) ==
    [k \in DOMAIN s |->
        IF k \in BatchIndices(i, Len(s)) THEN uploadSinglePart(s[k], ab) ELSE s[k]]

\* Mutant of StorePart: partsArray.push(part), records kept in arrival order
StorePartPush(pa, idx, part) ==
    [k \in DOMAIN pa \cup {Cardinality(DOMAIN pa)} |->
        IF k = Cardinality(DOMAIN pa) THEN part ELSE pa[k]]

\* partsArray[idx] = part
StorePart(pa, idx, part) ==
    [k \in DOMAIN pa \cup {idx} |-> IF k = idx THEN part ELSE pa[k]]

\* partsArray.filter(part => part !== undefined): defined entries by index
RECURSIVE FilterFrom(_, _)
FilterFrom(pa, S) ==
    IF S = {} THEN <<>>
    ELSE LET m == CHOOSE x \in S : \A y \in S : x <= y
         IN <<pa[m]>> \o FilterFrom(pa, S \ {m})

FilterDefined(pa) == FilterFrom(pa, DOMAIN pa)

\* dispatched and not yet settled
InFlightPhases == {"token", "put", "wait"}
InFlight == {k \in DOMAIN slots : slots[k].phase \in InFlightPhases}
Dispatched == {k \in DOMAIN slots : slots[k].phase # "pending"}
\* indices whose part number has a record: partsArray[partNumber - 1] is set
\* as soon as uploadPart has returned, before the 'uploading' event
Completed == {k \in DOMAIN slots : (PartNumberOf(k) - 1) \in DOMAIN partsArray}

---------------------------------------------------------------------------
\* how a cancel request can end: a 2xx reply, a reply with an error status,
\* or no reply at all (fetch rejects)
CancelOutcomes == {"ok", "status", "network"}

\* the body of abortUpload's try block throws: the lazy uploader goes
\* through getPresignedUrl, which throws on an error status too; the other
\* two await fetch and never look at the response
CancelThrows(m, o) ==
    IF m = "lazy" THEN o \in {"status", "network"} ELSE o = "network"

\* Mutant of abortUploadPromise: abortUpload without its try/catch
abortUploadNoCatch(m, o) ==
    [state |-> IF CancelThrows(m, o) THEN "rejected" ELSE "fulfilled",
     logged |-> FALSE]

\* async abortUpload(...): what its promise settles to, and whether the
\* catch block ran and logged the failure
abortUploadPromise(m, o) ==
    [state |-> IF CancelThrows(m, o) THEN "fulfilled" ELSE "fulfilled",
     logged |-> CancelThrows(m, o)]

---------------------------------------------------------------------------
\* a progress value written as a literal in the code: 0, 95, 100
Fixed(p) == [num |-> p, den |-> 1]

\* a < b for two progress values
ProgressLess(a, b) == a.num * b.den < b.num * a.den

\* Mutant of PartProgress: uploadedParts taken from partsArray.length, which
\* is totalParts from the start
PartProgressOfLength(pa, n) == [num |-> n * 100, den |-> n]

\* Mutant of PartProgress: the share of the parts still to be stored
PartProgressRemaining(pa, n) ==
    [num |-> (n - Len(FilterDefined(pa))) * 100, den |-> n]

\* uploadedParts = partsArray.filter(p => p !== undefined).length;
\* progress = (uploadedParts / totalParts) * 100
PartProgress(pa, n) == [num |-> Len(FilterDefined(pa)) * 100, den |-> n]

\* the progress event emitted last, with what was observed of the events so far
LastEvent ==
    [phase |-> lastPhase, progress |-> progress, drops |-> progressDrops,
     log |-> phaseLog]

\* onProgress({phase, progress, ...}) called after event ev was the last one
After(ev, phase, p) ==
    [phase |-> phase,
     progress |-> p,
     drops |-> IF phase # "error" /\ ProgressLess(p, ev.progress)
               THEN ev.drops \cup {phase} ELSE ev.drops,
     log |-> IF ev.phase = phase THEN ev.log ELSE Append(ev.log, phase)]

\* ev is the event the callback saw last when the step is over
SetLast(ev) ==
    /\ lastPhase' = ev.phase
    /\ progress' = ev.progress
    /\ progressDrops' = ev.drops
    /\ phaseLog' = ev.log

---------------------------------------------------------------------------
\* catch (error) { if (this.uploadId) await this.abortUpload(...); ... }
\* Mutant of Catch: the catch block never runs the cancel step
CatchNoCancel(err, uid, s, i, ph) ==
    /\ error' = err
    /\ slots' = s
    /\ batchI' = i
    /\ finalizeCalls' = finalizeCalls
    /\ cancelCalls' = cancelCalls
    /\ pc' = "rejected"
    /\ SetLast(After(ph, "error", Fixed(0)))
    /\ errorEmitted' = TRUE

\* ph is the progress event emitted last before the throw; with
\* no session id the 'error' event and the rethrow follow at once
Catch(err, uid, s, i, ph) ==
    /\ error' = err
    /\ slots' = s
    /\ batchI' = i
    /\ finalizeCalls' = finalizeCalls
    /\ IF uid # None
       THEN /\ cancelCalls' = Append(cancelCalls, uid)
            /\ pc' = "cancelling"
            /\ SetLast(ph)
            /\ errorEmitted' = errorEmitted
       ELSE /\ cancelCalls' = cancelCalls
            /\ pc' = "rejected"
            /\ SetLast(After(ph, "error", Fixed(0)))
            /\ errorEmitted' = TRUE

\* Mutant of Loop: neither the loop nor uploadSinglePart looks at this.aborted
LoopNoAbortCheck(i, s, pa, uid, ab, ph) ==
    IF i < Len(s)
    THEN /\ pc' = "transferring"
         /\ slots' = DispatchBatch(s, i, FALSE)
         /\ batchI' = i
         /\ SetLast(ph)
         /\ UNCHANGED <<error, cancelCalls, finalizeCalls, errorEmitted>>
    ELSE /\ pc' = "finalizing"
         /\ finalizeCalls' =
                Append(finalizeCalls, [uploadId |-> uid, parts |-> FilterDefined(pa)])
         /\ slots' = s
         /\ batchI' = i
         /\ SetLast(After(ph, "completing", Fixed(95)))
         /\ UNCHANGED <<error, cancelCalls, errorEmitted>>

\* the batch loop from loop variable i on, up to the next await: either the
\* abort check throws, or a batch is dispatched, or the loop is over and the
\* finalize request is sent (after the 'completing' event); ph is the
\* progress event emitted last before the loop goes on
Loop(i, s, pa, uid, ab, ph) ==
    IF i < Len(s)
    THEN IF ab
         THEN Catch(AbortedErr, uid, s, i, ph)
         ELSE LET d == DispatchBatch(s, i, ab)
              IN IF \E k \in DOMAIN d : d[k].phase = "refused"
                 THEN Catch(AbortedErr, uid, d, i, ph)
                 ELSE /\ pc' = "transferring"
                      /\ slots' = d
                      /\ batchI' = i
                      /\ SetLast(ph)
                      /\ UNCHANGED <<error, cancelCalls, finalizeCalls, errorEmitted>>
    ELSE /\ pc' = "finalizing"
         /\ finalizeCalls' =
                Append(finalizeCalls, [uploadId |-> uid, parts |-> FilterDefined(pa)])
         /\ slots' = s
         /\ batchI' = i
         /\ SetLast(After(ph, "completing", Fixed(95)))
         /\ UNCHANGED <<error, cancelCalls, errorEmitted>>

---------------------------------------------------------------------------
\* The create-session handler of the upfront API, in its two versions:
\* lambda-presigned-example.js ("example") and terraform/lambda-function.js
\* ("terraform").  server holds one call of handleInitiate: its arguments,
\* its position, the UploadId it got, the state of the signing of each part,
\* the tokens pushed so far, whether S3 holds the multipart upload it
\* created, and what it returned; calls holds the handleAbort and
\* handleComplete invocations made so far, each a run of its own.
Handlers == {"example", "terraform"}

NoResponse == [statusCode |-> 0, uploadId |-> None, presignedUrls |-> <<>>]

\* a handleAbort / handleComplete invocation before it has run
NoCall == [name |-> "none", pc |-> "idle", parts |-> <<>>, statusCode |-> 0]

NoRequest ==
    [handler |-> "none", totalParts |-> 0, fileSize |-> 0, pc |-> "idle",
     uploadId |-> None, sign |-> <<>>, urls |-> <<>>, open |-> FALSE,
     response |-> NoResponse, calls |-> <<>>]

\* the request body {action: 'initiate', fileSize, totalParts, ...} arrives
Received(h, n, fs) ==
    [NoRequest EXCEPT !.handler = h, !.totalParts = n, !.fileSize = fs,
                      !.pc = "received"]

\* return {statusCode, body: JSON.stringify(...)}
Returned(sv, code, uid, urls) ==
    [sv EXCEPT !.pc = "returned",
               !.response = [statusCode |-> code, uploadId |-> uid,
                             presignedUrls |-> urls]]

\* the outer catch block logs and rethrows
Threw(sv) == [sv EXCEPT !.pc = "threw"]

InitClient ==
    /\ mode \in Modes
    /\ fileSize \in 0..MaxFileSize
    /\ chunkSize \in ChunkSizes
    /\ maxRetries \in 1..MaxRetriesCfg
    /\ PlannedParts(fileSize, chunkSize) * maxRetries <= MaxAttempts
    /\ uploadId = None
    /\ presignedUrls = <<>>
    /\ aborted = FALSE
    /\ pc = "idle"
    /\ batchI = 0
    /\ slots = <<>>
    /\ partsArray = <<>>
    /\ error = NoError
    /\ result = None
    /\ cancelCalls = <<>>
    /\ finalizeCalls = <<>>
    /\ abortCalls = 0
    /\ abortedEarly = FALSE
    /\ abortedMid = FALSE
    /\ outOfOrder = FALSE
    /\ sessionCalls = 0
    /\ cancelLogged = FALSE
    /\ unhandled = FALSE
    /\ abortPending = 0
    /\ lastPhase = None
    /\ progress = Fixed(0)
    /\ progressDrops = {}
    /\ phaseLog = <<>>
    /\ errorEmitted = FALSE

\* the uploader as constructed; no request has reached the handler
Init == InitClient /\ server = NoRequest

\* S3MultipartUploaderDirectPresigned.initialize(uploadData)
initialize ==
    /\ mode = "direct"
    /\ pc = "idle"
    /\ uploadId = None
    /\ \E u \in UploadIds, t \in DirectTokenLists :
          /\ Len(t) * maxRetries <= MaxAttempts
          /\ uploadId' = u
          /\ presignedUrls' = SortTokens(t)
    /\ UNCHANGED <<config, server, aborted, pc, batchI, slots, partsArray, error, result,
                   cancelCalls, finalizeCalls, abortCalls, abortedEarly, abortedMid, outOfOrder,
                   sessionCalls, cancelObs, lastPhase, progressObs, errorEmitted>>

\* SampleUploaderUI.startUpload with a file selected (of any size, an empty
\* one included) and a token list loaded:
\* the chunk size is derived from the number of tokens and written to the
\* uploader, initialize() stores session id and tokens, and upload() runs up
\* to its first await
startUpload ==
    /\ mode = "direct"
    /\ pc = "idle"
    /\ uploadId = None
    /\ \E u \in UploadIds, t \in DirectTokenLists :
          /\ Len(t) * maxRetries <= MaxAttempts
          /\ chunkSize' = DerivedChunkSize(fileSize, Len(t))
          /\ uploadId' = u
          /\ presignedUrls' = SortTokens(t)
          /\ aborted' = FALSE
          /\ Loop(0, [k \in 1..Len(t) |-> NewSlot], partsArray, u, FALSE,
                  After(LastEvent, "uploading", Fixed(0)))
    /\ UNCHANGED <<mode, fileSize, maxRetries, server, partsArray, result, abortCalls,
                   abortedEarly, abortedMid, outOfOrder, sessionCalls, cancelObs>>

\* upload(file, onProgress) up to its first await
upload ==
    /\ pc = "idle"
    /\ IF mode = "direct"
       THEN IF uploadId = None \/ Len(presignedUrls) = 0
            THEN /\ pc' = "rejected"
                 /\ error' = Err("NotInitialized", 0)
                 /\ UNCHANGED <<aborted, batchI, slots, cancelCalls, finalizeCalls,
                                sessionCalls, lastPhase, progressObs, errorEmitted>>
            ELSE /\ aborted' = FALSE
                 /\ Loop(0, [k \in 1..Len(presignedUrls) |-> NewSlot],
                         partsArray, uploadId, FALSE,
                         After(LastEvent, "uploading", Fixed(0)))
                 /\ UNCHANGED sessionCalls
       ELSE /\ aborted' = FALSE
            /\ pc' = "initiating"
            /\ SetLast(After(LastEvent, "initiating", Fixed(0)))
            /\ sessionCalls' = sessionCalls + 1
            /\ UNCHANGED <<batchI, slots, error, cancelCalls, finalizeCalls, errorEmitted>>
    /\ UNCHANGED <<config, server, uploadId, presignedUrls, partsArray, result,
                   abortCalls, abortedEarly, abortedMid, outOfOrder, cancelObs>>

\* Mutant of getPresignedUrls: the response is accepted without comparing the
\* number of tokens with totalParts
getPresignedUrlsNoCount ==
    /\ mode = "upfront"
    /\ pc = "initiating"
    /\ LET n == PlannedParts(fileSize, chunkSize)
       IN \E resp \in UpfrontResponses(n) :
            IF /\ resp.ok
               /\ resp.uploadId # None
               /\ resp.hasUrls
            THEN /\ uploadId' = resp.uploadId
                 /\ presignedUrls' = SortTokens(resp.presignedUrls)
                 /\ Loop(0, [k \in 1..n |-> NewSlot],
                         partsArray, resp.uploadId, aborted,
                         After(LastEvent, "uploading", Fixed(0)))
            ELSE /\ UNCHANGED <<uploadId, presignedUrls>>
                 /\ Catch(Err("AuthorizationError", 0), uploadId, slots, batchI, LastEvent)
    /\ UNCHANGED <<config, server, aborted, partsArray, result, abortCalls,
                   abortedEarly, abortedMid, outOfOrder, sessionCalls, cancelObs>>

\* getPresignedUrls returns or throws (upfront), and upload() continues
getPresignedUrls ==
    /\ mode = "upfront"
    /\ pc = "initiating"
    /\ LET n == PlannedParts(fileSize, chunkSize)
       IN \E resp \in UpfrontResponses(n) :
            IF /\ resp.ok
               /\ resp.uploadId # None
               /\ resp.hasUrls
               /\ Len(resp.presignedUrls) = n
            THEN /\ uploadId' = resp.uploadId
                 /\ presignedUrls' = SortTokens(resp.presignedUrls)
                 /\ Loop(0, [k \in 1..Len(resp.presignedUrls) |-> NewSlot],
                         partsArray, resp.uploadId, aborted,
                         After(LastEvent, "uploading", Fixed(0)))
            ELSE /\ UNCHANGED <<uploadId, presignedUrls>>
                 /\ Catch(Err("AuthorizationError", 0), uploadId, slots, batchI, LastEvent)
    /\ UNCHANGED <<config, server, aborted, partsArray, result, abortCalls,
                   abortedEarly, abortedMid, outOfOrder, sessionCalls, cancelObs>>

\* initiateUpload returns or throws (lazy), and upload() continues
initiateUpload ==
    /\ mode = "lazy"
    /\ pc = "initiating"
    /\ \E resp \in LazyResponses :
            IF resp.ok /\ resp.uploadId # None
            THEN /\ uploadId' = resp.uploadId
                 /\ Loop(0, [k \in 1..PlannedParts(fileSize, chunkSize) |-> NewSlot],
                         partsArray, resp.uploadId, aborted,
                         After(LastEvent, "uploading", Fixed(0)))
            ELSE /\ UNCHANGED uploadId
                 /\ Catch(Err("AuthorizationError", 0), uploadId, slots, batchI, LastEvent)
    /\ UNCHANGED <<config, server, presignedUrls, aborted, partsArray, result, abortCalls,
                   abortedEarly, abortedMid, outOfOrder, sessionCalls, cancelObs>>

---------------------------------------------------------------------------
\* Mutant of BatchSettled: the loop goes on when any part of the batch is done
BatchSettledAny(s, i) == \E k \in BatchIndices(i, Len(s)) : s[k].phase = "done"

\* the batch of loop variable i has resolved: Promise.all(batch) fulfils
BatchSettled(s, i) == \A k \in BatchIndices(i, Len(s)) : s[k].phase = "done"

\* Mutant of AttemptFailed: the catch block of uploadPart never rethrows
AttemptFailedForever(k, kind) ==
    /\ slots' = [slots EXCEPT ![k] = [@ EXCEPT !.phase = "wait"]]
    /\ UNCHANGED <<pc, batchI, error, cancelCalls, finalizeCalls, lastPhase, progressObs,
                   errorEmitted, partsArray, outOfOrder>>

\* Mutant of AttemptFailed: a part that exhausts its retries after upload()
\* has already failed replaces the error
AttemptFailedLastWins(k, kind) ==
    LET r == slots[k].retries + 1
    IN /\ IF r >= maxRetries
          THEN LET s == [slots EXCEPT ![k] = [@ EXCEPT !.phase = "failed", !.retries = r]]
               IN IF pc = "transferring"
                  THEN Catch(Err(kind, k), uploadId, s, batchI, LastEvent)
                  ELSE /\ slots' = s
                       /\ error' = Err(kind, k)
                       /\ UNCHANGED <<pc, batchI, cancelCalls, finalizeCalls,
                                      lastPhase, progressObs, errorEmitted>>
          ELSE /\ slots' = [slots EXCEPT ![k] = [@ EXCEPT !.phase = "wait", !.retries = r,
                                                          !.waits = Append(@, Backoff(r))]]
               /\ UNCHANGED <<pc, batchI, error, cancelCalls, finalizeCalls,
                              lastPhase, progressObs, errorEmitted>>
       /\ UNCHANGED <<partsArray, outOfOrder>>

\* Mutant of AttemptFailed: the batch is awaited with Promise.allSettled, a
\* part that exhausts its retries only settles and the loop goes on
AttemptFailedAllSettled(k, kind) ==
    LET r == slots[k].retries + 1
    IN /\ IF r >= maxRetries
          THEN LET s == [slots EXCEPT ![k] = [@ EXCEPT !.phase = "failed", !.retries = r]]
               IN IF /\ pc = "transferring"
                     /\ \A j \in BatchIndices(batchI, Len(s)) : s[j].phase \in {"done", "failed"}
                  THEN Loop(batchI + maxConcurrent, s, partsArray, uploadId, aborted, LastEvent)
                  ELSE /\ slots' = s
                       /\ UNCHANGED <<pc, batchI, error, cancelCalls, finalizeCalls,
                                      lastPhase, progressObs, errorEmitted>>
          ELSE /\ slots' = [slots EXCEPT ![k] = [@ EXCEPT !.phase = "wait", !.retries = r,
                                                          !.waits = Append(@, Backoff(r))]]
               /\ UNCHANGED <<pc, batchI, error, cancelCalls, finalizeCalls,
                              lastPhase, progressObs, errorEmitted>>
       /\ UNCHANGED <<partsArray, outOfOrder>>

\* uploadPart's catch block for index k: count the failure, then either
\* rethrow (uploadSinglePart rejects, Promise.all rejects if still pending)
\* or start the backoff timer
AttemptFailed(k, kind) ==
    LET r == slots[k].retries + 1
    IN /\ IF r >= maxRetries
          THEN LET s == [slots EXCEPT ![k] = [@ EXCEPT !.phase = "failed", !.retries = r]]
               IN IF pc = "transferring"
                  THEN Catch(Err(kind, k), uploadId, s, batchI, LastEvent)
                  ELSE /\ slots' = s
                       /\ UNCHANGED <<pc, batchI, error, cancelCalls, finalizeCalls,
                                      lastPhase, progressObs, errorEmitted>>
          ELSE /\ slots' = [slots EXCEPT ![k] = [@ EXCEPT !.phase = "wait", !.retries = r,
                                                          !.waits = Append(@, Backoff(r))]]
               /\ UNCHANGED <<pc, batchI, error, cancelCalls, finalizeCalls,
                              lastPhase, progressObs, errorEmitted>>
       /\ UNCHANGED <<partsArray, outOfOrder>>

\* uploadPart returns {PartNumber, ETag}; uploadSinglePart stores it and
\* emits an 'uploading' progress event, and when it was the last of its batch
\* the loop goes on
PartDone(k, etag) ==
    LET pn == PartNumberOf(k)
        pa == StorePart(partsArray, pn - 1, [PartNumber |-> pn, ETag |-> etag])
        s == [slots EXCEPT ![k] = [@ EXCEPT !.phase = "done"]]
    IN /\ partsArray' = pa
       /\ outOfOrder' =
              (outOfOrder \/ \E j \in DOMAIN slots :
                                PartNumberOf(j) < pn /\ slots[j].phase # "done")
       /\ IF pc = "transferring" /\ BatchSettled(s, batchI)
          THEN Loop(batchI + maxConcurrent, s, pa, uploadId, aborted,
                    After(LastEvent, "uploading", PartProgress(pa, Len(s))))
          ELSE /\ slots' = s
               /\ SetLast(After(LastEvent, "uploading", PartProgress(pa, Len(slots))))
               /\ UNCHANGED <<pc, batchI, error, cancelCalls, finalizeCalls, errorEmitted>>

\* lazy mode: the per-attempt token request of uploadPart returns
TokenResponse(k) ==
    /\ mode = "lazy"
    /\ slots[k].phase = "token"
    /\ \E hasUrl \in BOOLEAN :
          IF hasUrl
          THEN /\ slots' = [slots EXCEPT ![k] = [@ EXCEPT !.phase = "put"]]
               /\ UNCHANGED <<pc, batchI, error, cancelCalls, finalizeCalls, partsArray,
                              outOfOrder, lastPhase, progressObs, errorEmitted>>
          ELSE AttemptFailed(k, "TransferError")
    /\ UNCHANGED <<config, server, uploadId, presignedUrls, aborted, result, abortCalls,
                   abortedEarly, abortedMid, sessionCalls, cancelObs>>

\* the PUT of one attempt fails: fetch rejects or the status is not ok
PutFails(k) ==
    /\ slots[k].phase = "put"
    /\ AttemptFailed(k, "TransferError")
    /\ UNCHANGED <<config, server, uploadId, presignedUrls, aborted, result, abortCalls,
                   abortedEarly, abortedMid, sessionCalls, cancelObs>>

\* the PUT of one attempt returns a success status with ETag header h
PutResponse(k) ==
    /\ slots[k].phase = "put"
    /\ \E h \in EtagHeaders :
          IF EtagMissing(h)
          THEN AttemptFailed(k, "MissingIntegrityTagError")
          ELSE PartDone(k, StripQuotes(h).value)
    /\ UNCHANGED <<config, server, uploadId, presignedUrls, aborted, result, abortCalls,
                   abortedEarly, abortedMid, sessionCalls, cancelObs>>

\* the backoff timer of uploadPart fires: next iteration of the while loop
RetryTimer(k) ==
    /\ slots[k].phase = "wait"
    /\ slots' = [slots EXCEPT ![k] = [@ EXCEPT !.phase = FirstPhase]]
    /\ UNCHANGED <<config, server, uploadId, presignedUrls, aborted, pc, batchI, partsArray,
                   error, result, cancelCalls, finalizeCalls, abortCalls,
                   abortedEarly, abortedMid, outOfOrder, sessionCalls, cancelObs,
                   lastPhase, progressObs, errorEmitted>>

\* Mutant of completeUpload: a failed finalize request is sent again
completeUploadRetried ==
    /\ pc = "finalizing"
    /\ \/ \E d \in FinalizeResults :
            /\ result' = d
            /\ pc' = "resolved"
            /\ SetLast(After(LastEvent, "completed", Fixed(100)))
            /\ UNCHANGED <<batchI, slots, error, cancelCalls, finalizeCalls, errorEmitted>>
       \/ /\ finalizeCalls' = Append(finalizeCalls, finalizeCalls[Len(finalizeCalls)])
          /\ UNCHANGED <<pc, batchI, slots, error, cancelCalls, result, lastPhase, progressObs,
                         errorEmitted>>
    /\ UNCHANGED <<config, server, uploadId, presignedUrls, aborted, partsArray, abortCalls,
                   abortedEarly, abortedMid, outOfOrder, sessionCalls, cancelObs>>

\* Mutant of completeUpload: the success path also runs the cancel request
completeUploadThenCancel ==
    /\ pc = "finalizing"
    /\ \/ \E d \in FinalizeResults :
            /\ result' = d
            /\ pc' = "resolved"
            /\ cancelCalls' = Append(cancelCalls, uploadId)
            /\ SetLast(After(LastEvent, "completed", Fixed(100)))
            /\ UNCHANGED <<batchI, slots, error, finalizeCalls, errorEmitted>>
       \/ /\ Catch(Err("FinalizationError", 0), uploadId, slots, batchI, LastEvent)
          /\ UNCHANGED result
    /\ UNCHANGED <<config, server, uploadId, presignedUrls, aborted, partsArray, abortCalls,
                   abortedEarly, abortedMid, outOfOrder, sessionCalls, cancelObs>>

\* completeUpload returns (the 'completed' event follows) or throws, and
\* upload() continues
completeUpload ==
    /\ pc = "finalizing"
    /\ \/ \E d \in FinalizeResults :
            /\ result' = d
            /\ pc' = "resolved"
            /\ SetLast(After(LastEvent, "completed", Fixed(100)))
            /\ UNCHANGED <<batchI, slots, error, cancelCalls, finalizeCalls, errorEmitted>>
       \/ /\ Catch(Err("FinalizationError", 0), uploadId, slots, batchI, LastEvent)
          /\ UNCHANGED result
    /\ UNCHANGED <<config, server, uploadId, presignedUrls, aborted, partsArray, abortCalls,
                   abortedEarly, abortedMid, outOfOrder, sessionCalls, cancelObs>>

\* Mutant of abortUpload: a failure of the awaited cancel request replaces
\* the error of the upload
abortUploadMasksError ==
    /\ pc = "cancelling"
    /\ \E o \in CancelOutcomes :
          LET p == abortUploadPromise(mode, o)
          IN /\ cancelLogged' = (cancelLogged \/ p.logged)
             /\ pc' = "rejected"
             /\ error' = IF p.logged THEN Err("CancelError", 0) ELSE error
             /\ SetLast(After(LastEvent, "error", Fixed(0)))
             /\ errorEmitted' = TRUE
    /\ UNCHANGED <<config, server, uploadId, presignedUrls, aborted, batchI, slots, partsArray,
                   result, cancelCalls, finalizeCalls, abortCalls,
                   abortedEarly, abortedMid, outOfOrder, sessionCalls, unhandled,
                   abortPending>>

\* the cancel request awaited by upload()'s catch block ends with outcome o:
\* when the abortUpload promise fulfils, the 'error' event is emitted and the
\* error is rethrown; were it to reject, its error would leave the catch
\* block in place of the original one, before the 'error' event
abortUpload ==
    /\ pc = "cancelling"
    /\ \E o \in CancelOutcomes :
          LET p == abortUploadPromise(mode, o)
          IN /\ cancelLogged' = (cancelLogged \/ p.logged)
             /\ pc' = "rejected"
             /\ IF p.state = "rejected"
                THEN /\ error' = Err("CancelError", 0)
                     /\ UNCHANGED <<lastPhase, progressObs, errorEmitted>>
                ELSE /\ error' = error
                     /\ SetLast(After(LastEvent, "error", Fixed(0)))
                     /\ errorEmitted' = TRUE
    /\ UNCHANGED <<config, server, uploadId, presignedUrls, aborted, batchI, slots, partsArray,
                   result, cancelCalls, finalizeCalls, abortCalls,
                   abortedEarly, abortedMid, outOfOrder, sessionCalls, unhandled,
                   abortPending>>

\* Mutant of abort: the cancel request is fired whether or not a session
\* id exists
abortAlwaysCancels ==
    /\ abortCalls < MaxAborts
    /\ abortCalls' = abortCalls + 1
    /\ aborted' = TRUE
    /\ cancelCalls' = Append(cancelCalls, uploadId)
    /\ abortPending' = abortPending + 1
    /\ abortedEarly' = (abortedEarly
                          \/ (pc \in {"initiating", "transferring"} /\ Completed = {}))
    /\ abortedMid' = (abortedMid \/ pc = "transferring")
    /\ UNCHANGED <<config, server, uploadId, presignedUrls, pc, batchI, slots, partsArray,
                   error, result, finalizeCalls, outOfOrder, sessionCalls,
                   lastPhase, progressObs, errorEmitted, cancelLogged, unhandled>>

\* abort(): set the flag, fire the cancel request when a session id exists,
\* and return; the abortUpload call it started is not awaited and goes on in
\* abortUploadUnawaited when its fetch settles
abort ==
    /\ abortCalls < MaxAborts
    /\ abortCalls' = abortCalls + 1
    /\ aborted' = TRUE
    /\ cancelCalls' = IF uploadId # None THEN Append(cancelCalls, uploadId)
                      ELSE cancelCalls
    /\ abortPending' = IF uploadId # None THEN abortPending + 1 ELSE abortPending
    /\ abortedEarly' = (abortedEarly
                          \/ (pc \in {"initiating", "transferring"} /\ Completed = {}))
    /\ abortedMid' = (abortedMid \/ pc = "transferring")
    /\ UNCHANGED <<config, server, uploadId, presignedUrls, pc, batchI, slots, partsArray,
                   error, result, finalizeCalls, outOfOrder, sessionCalls,
                   lastPhase, progressObs, errorEmitted, cancelLogged, unhandled>>

\* the fetch of a cancel request fired by abort() settles with outcome o, in
\* a task of its own: the catch block of abortUpload logs a failure.  Nobody
\* awaits this abortUpload promise, so a rejection of it would be unhandled
abortUploadUnawaited ==
    /\ abortPending >= 1
    /\ abortPending' = abortPending - 1
    /\ \E o \in CancelOutcomes :
          LET p == abortUploadPromise(mode, o)
          IN /\ cancelLogged' = (cancelLogged \/ p.logged)
             /\ unhandled' = (unhandled \/ p.state = "rejected")
    /\ UNCHANGED <<config, server, uploadId, presignedUrls, aborted, pc, batchI, slots,
                   partsArray, error, result, cancelCalls, finalizeCalls, abortCalls,
                   abortedEarly, abortedMid, outOfOrder, sessionCalls,
                   lastPhase, progressObs, errorEmitted>>

Next ==
    \/ initialize
    \/ startUpload
    \/ upload
    \/ getPresignedUrls
    \/ initiateUpload
    \/ \E k \in DOMAIN slots : TokenResponse(k)
    \/ \E k \in DOMAIN slots : PutFails(k)
    \/ \E k \in DOMAIN slots : PutResponse(k)
    \/ \E k \in DOMAIN slots : RetryTimer(k)
    \/ completeUpload
    \/ abortUpload
    \/ abort
    \/ abortUploadUnawaited

Spec == Init /\ [][Next]_vars

\* what the environment owes part index k: the token reply, the reply of
\* the PUT, or the backoff timer
PartStep(k) ==
    /\ k \in DOMAIN slots
    /\ TokenResponse(k) \/ PutFails(k) \/ PutResponse(k) \/ RetryTimer(k)

\* a reply or a timer of the upload() call arrives
Responses ==
    \/ getPresignedUrls
    \/ initiateUpload
    \/ \E k \in DOMAIN slots : PartStep(k)
    \/ completeUpload
    \/ abortUpload

---------------------------------------------------------------------------
\* The actions above take an onProgress callback that returns normally.  The
\* actions below are the same handlers with a callback that throws on the
\* event it is handed; no call of onProgress is guarded, so the exception
\* leaves through the code that emitted the event.

\* upload() emits its first event ('initiating', or 'uploading' with progress
\* 0 in the direct uploader) and the callback throws: the catch block of
\* upload() runs before any request was made
uploadThrows ==
    /\ pc = "idle"
    /\ mode = "direct" => (uploadId # None /\ Len(presignedUrls) # 0)
    /\ aborted' = FALSE
    /\ Catch(Err("CallbackError", 0), uploadId, slots, batchI,
             After(LastEvent, IF mode = "direct" THEN "uploading" ELSE "initiating",
                   Fixed(0)))
    /\ UNCHANGED <<config, server, uploadId, presignedUrls, partsArray, result, abortCalls,
                   abortedEarly, abortedMid, outOfOrder, sessionCalls, cancelObs>>

\* the create-session or initiate request returns a reply that is accepted
\* (the uploader keeps its session id and, upfront, its sorted tokens), and
\* the callback throws on the 'uploading' event with progress 0 that follows
\* or, when there is no part and the loop is skipped, on the 'completing'
\* event after it
sessionThrows ==
    /\ mode \in {"upfront", "lazy"}
    /\ pc = "initiating"
    /\ LET n == PlannedParts(fileSize, chunkSize)
           first == After(LastEvent, "uploading", Fixed(0))
       IN /\ IF mode = "upfront"
             THEN \E resp \in UpfrontResponses(n) :
                     /\ resp.ok
                     /\ resp.uploadId # None
                     /\ resp.hasUrls
                     /\ Len(resp.presignedUrls) = n
                     /\ uploadId' = resp.uploadId
                     /\ presignedUrls' = SortTokens(resp.presignedUrls)
             ELSE \E resp \in LazyResponses :
                     /\ resp.ok
                     /\ resp.uploadId # None
                     /\ uploadId' = resp.uploadId
                     /\ UNCHANGED presignedUrls
          /\ \E thrower \in {"uploading", "completing"} :
                /\ thrower = "completing" => n = 0
                /\ Catch(Err("CallbackError", 0), uploadId', slots, batchI,
                         IF thrower = "uploading" THEN first
                         ELSE After(first, "completing", Fixed(95)))
    /\ UNCHANGED <<config, server, aborted, partsArray, result, abortCalls,
                   abortedEarly, abortedMid, outOfOrder, sessionCalls, cancelObs>>

\* the create-session or initiate request fails or its reply is refused: no
\* session id is held, the catch block of upload() skips the cancel step and
\* emits the 'error' event in the same step, and the callback throws on it:
\* its exception leaves the catch block in place of the error of the request
sessionFailsThrows ==
    /\ mode \in {"upfront", "lazy"}
    /\ pc = "initiating"
    /\ uploadId = None
    /\ IF mode = "upfront"
       THEN LET n == PlannedParts(fileSize, chunkSize)
            IN \E resp \in UpfrontResponses(n) :
                  ~(/\ resp.ok
                    /\ resp.uploadId # None
                    /\ resp.hasUrls
                    /\ Len(resp.presignedUrls) = n)
       ELSE \E resp \in LazyResponses : ~(resp.ok /\ resp.uploadId # None)
    /\ pc' = "rejected"
    /\ error' = Err("CallbackError", 0)
    /\ SetLast(After(LastEvent, "error", Fixed(0)))
    /\ errorEmitted' = TRUE
    /\ UNCHANGED <<config, server, uploadId, presignedUrls, aborted, batchI, slots,
                   partsArray, result, cancelCalls, finalizeCalls, abortCalls,
                   abortedEarly, abortedMid, outOfOrder, sessionCalls, cancelObs>>

\* the PUT of index k succeeds, the record is stored, and the callback throws
\* on the 'uploading' event: the catch block of uploadSinglePart rethrows,
\* the promise of the part rejects and with it Promise.all(batch)
PartDoneThrows(k) ==
    /\ slots[k].phase = "put"
    /\ \E h \in EtagHeaders :
          /\ ~EtagMissing(h)
          /\ LET pn == PartNumberOf(k)
                 pa == StorePart(partsArray, pn - 1,
                                 [PartNumber |-> pn, ETag |-> StripQuotes(h).value])
                 s == [slots EXCEPT ![k] = [@ EXCEPT !.phase = "failed"]]
             IN /\ partsArray' = pa
                /\ outOfOrder' =
                       (outOfOrder \/ \E j \in DOMAIN slots :
                                         PartNumberOf(j) < pn /\ slots[j].phase # "done")
                /\ IF pc = "transferring"
                   THEN Catch(Err("CallbackError", k), uploadId, s, batchI,
                              After(LastEvent, "uploading", PartProgress(pa, Len(s))))
                   ELSE /\ slots' = s
                        /\ SetLast(After(LastEvent, "uploading", PartProgress(pa, Len(slots))))
                        /\ UNCHANGED <<pc, batchI, error, cancelCalls, finalizeCalls,
                                       errorEmitted>>
    /\ UNCHANGED <<config, server, uploadId, presignedUrls, aborted, result, abortCalls,
                   abortedEarly, abortedMid, sessionCalls, cancelObs>>

\* the last part of the last batch is done, the loop is over, and the
\* callback throws on the 'completing' event: no finalize request is sent
completingThrows(k) ==
    /\ pc = "transferring"
    /\ slots[k].phase = "put"
    /\ batchI + maxConcurrent >= Len(slots)
    /\ \E h \in EtagHeaders :
          /\ ~EtagMissing(h)
          /\ LET pn == PartNumberOf(k)
                 pa == StorePart(partsArray, pn - 1,
                                 [PartNumber |-> pn, ETag |-> StripQuotes(h).value])
                 s == [slots EXCEPT ![k] = [@ EXCEPT !.phase = "done"]]
             IN /\ BatchSettled(s, batchI)
                /\ partsArray' = pa
                /\ outOfOrder' =
                       (outOfOrder \/ \E j \in DOMAIN slots :
                                         PartNumberOf(j) < pn /\ slots[j].phase # "done")
                /\ Catch(Err("CallbackError", 0), uploadId, s, batchI + maxConcurrent,
                         After(After(LastEvent, "uploading", PartProgress(pa, Len(s))),
                               "completing", Fixed(95)))
    /\ UNCHANGED <<config, server, uploadId, presignedUrls, aborted, result, abortCalls,
                   abortedEarly, abortedMid, sessionCalls, cancelObs>>

\* the finalize request succeeds and the callback throws on the 'completed'
\* event: upload() does not return the result, its catch block runs
completeUploadThrows ==
    /\ pc = "finalizing"
    /\ \E d \in FinalizeResults :
          Catch(Err("CallbackError", 0), uploadId, slots, batchI,
                After(LastEvent, "completed", Fixed(100)))
    /\ UNCHANGED <<config, server, uploadId, presignedUrls, aborted, partsArray, result,
                   abortCalls, abortedEarly, abortedMid, outOfOrder, sessionCalls,
                   cancelObs>>

\* the cancel request awaited by the catch block of upload() ends, and the
\* callback throws on the 'error' event: its exception leaves the catch block
\* in place of the error of the upload
abortUploadThrows ==
    /\ pc = "cancelling"
    /\ \E o \in CancelOutcomes :
          LET p == abortUploadPromise(mode, o)
          IN /\ cancelLogged' = (cancelLogged \/ p.logged)
             /\ pc' = "rejected"
             /\ error' = Err("CallbackError", 0)
             /\ SetLast(After(LastEvent, "error", Fixed(0)))
             /\ errorEmitted' = TRUE
    /\ UNCHANGED <<config, server, uploadId, presignedUrls, aborted, batchI, slots, partsArray,
                   result, cancelCalls, finalizeCalls, abortCalls,
                   abortedEarly, abortedMid, outOfOrder, sessionCalls, unhandled,
                   abortPending>>

\* the files uploaded with a throwing callback
InitThrowingCallback ==
    /\ Init
    /\ fileSize <= MaxFileSizeThrowing
    /\ maxRetries <= MaxRetriesThrowing

NextThrowingCallback ==
    \/ Next
    \/ uploadThrows
    \/ sessionThrows
    \/ sessionFailsThrows
    \/ \E k \in DOMAIN slots : PartDoneThrows(k)
    \/ \E k \in DOMAIN slots : completingThrows(k)
    \/ completeUploadThrows
    \/ abortUploadThrows

SpecThrowingCallback == InitThrowingCallback /\ [][NextThrowingCallback]_vars

---------------------------------------------------------------------------
\* handleInitiate up to its first await: the argument checks (the terraform
\* version checks fileSize too), then s3.createMultipartUpload is called
handleInitiate ==
    /\ server.pc = "received"
    /\ server' =
          IF \/ server.totalParts < 1
             \/ server.handler = "terraform" /\ server.fileSize <= 0
          THEN Returned(server, 400, None, <<>>)
          ELSE [server EXCEPT !.pc = "creating"]
    /\ UNCHANGED clientVars

\* s3.createMultipartUpload(params).promise() settles: on success the loop
\* over the parts starts, awaiting the URL of part 1 (example) or pushing a
\* promise for every part and awaiting Promise.all (terraform); on failure
\* the outer catch rethrows
createMultipartUpload ==
    /\ server.pc = "creating"
    /\ \E ok \in BOOLEAN, u \in UploadIds :
          server' =
             IF ok
             THEN [server EXCEPT
                      !.pc = "signing", !.uploadId = u, !.open = TRUE,
                      !.sign = [p \in 1..server.totalParts |->
                                   IF server.handler = "terraform" \/ p = 1
                                   THEN "pending" ELSE "none"]]
             ELSE Threw(server)
    /\ UNCHANGED clientVars

\* example version: the awaited URL of part p arrives and is pushed, then the
\* next part is signed or the response is returned; when signing fails the
\* inner catch calls s3.abortMultipartUpload
ExampleSigned(sv, p, ok) ==
    IF ok
    THEN LET urls == Append(sv.urls, [partNumber |-> p, url |-> p])
         IN IF p = sv.totalParts
            THEN Returned([sv EXCEPT !.sign[p] = "ok", !.urls = urls],
                          200, sv.uploadId, urls)
            ELSE [sv EXCEPT !.sign[p] = "ok", !.sign[p + 1] = "pending", !.urls = urls]
    ELSE [sv EXCEPT !.sign[p] = "failed", !.pc = "aborting"]

\* terraform version: the promise of part p settles; Promise.all fulfils with
\* the tokens in the order pushed, which are sorted and returned; it rejects
\* with the first failure and the outer catch rethrows
TerraformSigned(sv, p, ok) ==
    IF ok
    THEN LET sg == [sv.sign EXCEPT ![p] = "ok"]
         IN IF \A q \in DOMAIN sg : sg[q] = "ok"
            THEN LET urls == SortTokens([q \in 1..sv.totalParts |->
                                            [partNumber |-> q, url |-> q]])
                 IN Returned([sv EXCEPT !.sign = sg, !.urls = urls],
                             200, sv.uploadId, urls)
            ELSE [sv EXCEPT !.sign = sg]
    ELSE Threw([sv EXCEPT !.sign[p] = "failed"])

\* generatePresignedUrl('uploadPart', ...) of part p settles
generatePresignedUrl(p) ==
    /\ server.pc = "signing"
    /\ server.sign[p] = "pending"
    /\ \E ok \in BOOLEAN :
          server' = IF server.handler = "example"
                    THEN ExampleSigned(server, p, ok)
                    ELSE TerraformSigned(server, p, ok)
    /\ UNCHANGED clientVars

\* example version: s3.abortMultipartUpload(...).promise() awaited in the
\* inner catch settles; then the new Error is thrown, or the rejection of
\* the abort itself leaves the catch block; either way the outer catch
\* rethrows
abortMultipartUpload ==
    /\ server.pc = "aborting"
    /\ \E ok \in BOOLEAN :
          server' = Threw([server EXCEPT !.open = IF ok THEN FALSE ELSE @])
    /\ UNCHANGED clientVars

\* parts.sort((a, b) => a.PartNumber - b.PartNumber): stable insertion
RECURSIVE InsertPart(_, _)
InsertPart(t, ps) ==
    IF ps = <<>> THEN <<t>>
    ELSE IF t.PartNumber < Head(ps).PartNumber THEN <<t>> \o ps
    ELSE <<Head(ps)>> \o InsertPart(t, Tail(ps))

RECURSIVE SortParts(_)
SortParts(ps) ==
    IF ps = <<>> THEN <<>>
    ELSE InsertPart(ps[Len(ps)], SortParts(SubSeq(ps, 1, Len(ps) - 1)))

\* parts arrays of a complete-upload request for a session of n parts: all
\* records in ascending or descending order, none, or all with the first
\* lacking its ETag
AscParts(n) == [k \in 1..n |-> [PartNumber |-> k, ETag |-> <<"e">>]]
DescParts(n) == [k \in 1..n |-> [PartNumber |-> n + 1 - k, ETag |-> <<"e">>]]
NoTagParts(n) ==
    [k \in 1..n |-> [PartNumber |-> k, ETag |-> IF k = 1 THEN <<>> ELSE <<"e">>]]
CompleteRequests(n) == {AscParts(n), DescParts(n), <<>>, NoTagParts(n)}

\* !sortedParts[i].PartNumber || !sortedParts[i].ETag for some i
InvalidPart(ps) ==
    \E i \in DOMAIN ps : ps[i].PartNumber = 0 \/ ps[i].ETag = <<>>

\* return {statusCode, ...} of a handleAbort / handleComplete invocation c
CallReturned(c, code) == [c EXCEPT !.pc = "returned", !.statusCode = code]

\* exports.handler dispatches on the path alone: every invocation runs on its
\* own, whatever the other invocations are doing
Invoked(sv, c) == [sv EXCEPT !.calls = Append(@, c)]

\* exports.handler, path abort-upload: handleAbort(Bucket, Key, uploadId) up
\* to its await: 400 without uploadId, else s3.abortMultipartUpload is called
handleAbort ==
    /\ server.pc # "idle"
    /\ Len(server.calls) < MaxCalls
    /\ \E uid \in UploadIds \cup {None} :
          LET c == [NoCall EXCEPT !.name = "abort"]
          IN server' = Invoked(server, IF uid = None
                                       THEN CallReturned(c, 400)
                                       ELSE [c EXCEPT !.pc = "awaiting"])
    /\ UNCHANGED clientVars

\* s3.abortMultipartUpload(params).promise() of invocation i settles: 200 is
\* returned whether it succeeded or not (abort is best effort)
handleAbortSettles(i) ==
    /\ server.calls[i].name = "abort"
    /\ server.calls[i].pc = "awaiting"
    /\ \E ok \in BOOLEAN :
          server' = [server EXCEPT !.open = IF ok THEN FALSE ELSE @,
                                   !.calls[i] = CallReturned(@, 200)]
    /\ UNCHANGED clientVars

\* exports.handler, path complete-upload: handleComplete(Bucket, Key,
\* uploadId, parts) up to its await: the argument checks, the sort, the
\* check of every part, then s3.completeMultipartUpload is called with the
\* sorted parts
handleComplete ==
    /\ server.pc # "idle"
    /\ Len(server.calls) < MaxCalls
    /\ \E uid \in UploadIds \cup {None},
          ps \in CompleteRequests(server.totalParts) :
          LET c == [NoCall EXCEPT !.name = "complete"]
              sorted == SortParts(ps)
          IN server' = Invoked(server,
                IF uid = None \/ Len(ps) = 0 \/ InvalidPart(sorted)
                THEN CallReturned(c, 400)
                ELSE [c EXCEPT !.pc = "awaiting", !.parts = sorted])
    /\ UNCHANGED clientVars

\* s3.completeMultipartUpload(params).promise() of invocation i settles: on
\* success the upload is completed and 200 is returned, on failure the catch
\* block rethrows
handleCompleteSettles(i) ==
    /\ server.calls[i].name = "complete"
    /\ server.calls[i].pc = "awaiting"
    /\ \E ok \in BOOLEAN :
          server' = IF ok
                    THEN [server EXCEPT !.open = FALSE,
                                        !.calls[i] = CallReturned(@, 200)]
                    ELSE [server EXCEPT !.calls[i].pc = "threw"]
    /\ UNCHANGED clientVars

\* the upfront uploader's request {fileSize, totalParts} reaches a handler
InitHandler ==
    /\ InitClient
    /\ mode = "upfront"
    /\ \E h \in Handlers :
          server = Received(h, PlannedParts(fileSize, chunkSize), fileSize)

HandlerNext ==
    \/ handleInitiate
    \/ createMultipartUpload
    \/ \E p \in DOMAIN server.sign : generatePresignedUrl(p)
    \/ abortMultipartUpload
    \/ handleAbort
    \/ \E i \in DOMAIN server.calls : handleAbortSettles(i)
    \/ handleComplete
    \/ \E i \in DOMAIN server.calls : handleCompleteSettles(i)

HandlerSpec == InitHandler /\ [][HandlerNext]_vars

\* as long as a request or a timer is outstanding, one of them eventually
\* returns, fails or fires; nothing is assumed of the caller (upload,
\* initialize, abort)
Fairness == WF_vars(Responses)

FairSpec == Spec /\ Fairness

TypeOK ==
    /\ pc \in {"idle", "initiating", "transferring", "finalizing", "cancelling",
               "resolved", "rejected"}
    /\ aborted \in BOOLEAN
    /\ \A k \in DOMAIN slots :
          slots[k].phase \in {"pending", "token", "put", "wait", "done", "failed", "refused"}
    /\ Len(cancelCalls) <= MaxAborts + 1
    /\ Len(finalizeCalls) <= 1
    /\ sessionCalls \in 0..1
    /\ abortPending \in 0..abortCalls
    /\ lastPhase \in {None, "initiating", "uploading", "completing", "completed", "error"}
    /\ progress.num \in 0..(100 * progress.den)
    /\ progress.den >= 1
    /\ progressDrops \subseteq {"initiating", "uploading", "completing", "completed"}
    /\ phaseLog = <<>> <=> lastPhase = None
    /\ phaseLog # <<>> => phaseLog[Len(phaseLog)] = lastPhase

---------------------------------------------------------------------------
(***************************************************************************)
(* Claims                                                                  *)
(***************************************************************************)
Settled == pc \in {"resolved", "rejected"}

TransferKinds == {"TransferError", "MissingIntegrityTagError"}

Ascending(ps) ==
    \A a, b \in 1..Len(ps) : a < b => ps[a].PartNumber < ps[b].PartNumber

\* C1: at every instant of one upload() call at most maxConcurrent (5) part
\* transfers have been dispatched and have not yet settled.
C1_InFlightBounded == Cardinality(InFlight) <= maxConcurrent

\* C1 witness: a full batch is in flight while a further part waits.
C1_Witness ==
    /\ Cardinality(InFlight) = maxConcurrent
    /\ \E k \in DOMAIN slots : slots[k].phase = "pending"

\* C2: the parts list of every finalize request is strictly ascending by
\* part number, whatever the order in which the transfers completed.
C2_FinalizeAscending ==
    \A c \in 1..Len(finalizeCalls) : Ascending(finalizeCalls[c].parts)

\* C2 witness: a finalize request of several parts was sent although a part
\* had completed before a lower-numbered one.
C2_Witness ==
    /\ Len(finalizeCalls) = 1
    /\ Len(finalizeCalls[1].parts) >= 2
    /\ outOfOrder

\* C3: the list submitted to finalize has exactly totalParts entries.
C3_FinalizeHasAllParts ==
    \A c \in 1..Len(finalizeCalls) : Len(finalizeCalls[c].parts) = totalParts

\* C4: if abort() is called before any part has completed, the upload makes
\* zero finalize calls and, once it has settled with a session created, at
\* least one cancel call.
C4_EarlyAbortNeverFinalizes ==
    abortedEarly =>
        /\ finalizeCalls = <<>>
        /\ (Settled /\ uploadId # None) => Len(cancelCalls) >= 1

\* C5: a part whose transfer fails on every attempt the uploader makes for
\* it (how many attempts that is, is the subject of C6) makes upload() reject
\* with the transfer error of a part given up, and (no abort() involved)
\* exactly one cancel call carrying the session id and no finalize call are
\* made.
C5_ExhaustedPartRejects ==
    ((\E k \in DOMAIN slots : slots[k].phase = "failed") /\ abortCalls = 0) =>
        /\ pc \in {"cancelling", "rejected"}
        /\ error.kind \in TransferKinds
        /\ slots[error.index].phase = "failed"
        /\ cancelCalls = <<uploadId>>
        /\ finalizeCalls = <<>>

\* C5 witness: with two attempts allowed, a part failed both of them after
\* one backoff, no abort() call was made, the awaited cancel request got
\* its reply and upload() has rejected with that part's TransferError.
C5_Witness ==
    /\ pc = "rejected"
    /\ abortCalls = 0
    /\ maxRetries = 2
    /\ error.kind = "TransferError"
    /\ slots[error.index].phase = "failed"
    /\ slots[error.index].retries = 2
    /\ Len(slots[error.index].waits) = 1
    /\ cancelCalls = <<uploadId>>
    /\ ~cancelLogged

\* C6: a part is retried up to maxRetries additional times after its first
\* failed attempt: it is given up only after maxRetries + 1 failed attempts,
\* and never attempted more often.
C6_RetriedMaxRetriesTimes ==
    \A k \in DOMAIN slots :
        /\ slots[k].retries <= maxRetries + 1
        /\ slots[k].phase = "failed" => slots[k].retries = maxRetries + 1

\* C7: if abort() is invoked while parts are being transferred (and no part
\* exhausts its retries), upload() rejects with an AbortedError and exactly
\* one cancel call is made.
C7_MidTransferAbortRejects ==
    (abortedMid /\ Settled /\ \A k \in DOMAIN slots : slots[k].phase # "failed") =>
        /\ pc = "rejected"
        /\ error.kind = "AbortedError"
        /\ Len(cancelCalls) = 1

\* C8: once the aborted flag is true during an upload() call, no part that
\* had not been dispatched is dispatched any more; and the step that sets
\* the flag leaves every transfer in flight as it is.
C8_NoDispatchAfterAbort ==
    [][/\ (aborted /\ pc # "idle") => Dispatched' = Dispatched
       /\ (~aborted /\ aborted') => slots' = slots]_vars

\* C8 witness: the upload was rejected as aborted with a part completed and
\* a part never dispatched.
C8_Witness ==
    /\ aborted
    /\ pc = "rejected"
    /\ error.kind = "AbortedError"
    /\ \E k \in DOMAIN slots : slots[k].phase = "pending"
    /\ \E k \in DOMAIN slots : slots[k].phase = "done"

\* C9: a part transfer that returns after the aborted flag was set has its
\* result discarded: it adds no completion record.
C9_LateResultsDiscarded ==
    [][(aborted /\ pc # "idle") => partsArray' = partsArray]_vars

\* C10: if no part exhausts its retries, session creation and finalize
\* succeed and abort() is never called, upload() resolves with the finalize
\* response after exactly one finalize call and zero cancel calls.
C10_SuccessResolves ==
    (/\ Settled
     /\ abortCalls = 0
     /\ error.kind \notin {"AuthorizationError", "FinalizationError", "NotInitialized"}
     /\ \A k \in DOMAIN slots : slots[k].phase # "failed") =>
        /\ pc = "resolved"
        /\ result \in FinalizeResults
        /\ Len(finalizeCalls) = 1
        /\ cancelCalls = <<>>

\* C10 witness: an upload of several parts, one of which failed once and was
\* retried, has resolved without any abort().
C10_Witness ==
    /\ pc = "resolved"
    /\ abortCalls = 0
    /\ totalParts >= 2
    /\ \E k \in DOMAIN slots : slots[k].retries >= 1

\* C11: finalize is attempted at most once per upload() call, in every
\* interleaving of part completions, failures and abort() calls.
C11_FinalizeAtMostOnce == Len(finalizeCalls) <= 1

\* C11 witness: the single finalize request failed after an abort() call
\* and a retried part, and the upload was rejected without a second one.
C11_Witness ==
    /\ pc = "rejected"
    /\ error.kind = "FinalizationError"
    /\ Len(finalizeCalls) = 1
    /\ abortCalls >= 1
    /\ \E k \in DOMAIN slots : slots[k].retries >= 1

\* C12: abort() returns normally in every state, also when its cancel
\* request fails at the transport level: no exception and no rejection
\* reaches the caller.
C12_AbortNeverRejects == ~unhandled

\* C12 witness: abort() was called with a session open, its cancel request
\* failed and was logged by abortUpload, and the upload went on to resolve
\* (so the failed request was abort()'s, not the catch block's).
C12_Witness ==
    /\ abortCalls >= 1
    /\ cancelLogged
    /\ pc = "resolved"

OriginalKinds ==
    {AbortedErr.kind, "AuthorizationError", "FinalizationError"} \cup TransferKinds

\* C13: when upload() fails and the awaited cancel request fails too,
\* upload() rejects with the error that caused the failure, never with the
\* error of the cancel request.
C13_OriginalErrorSurvives ==
    (pc = "rejected" /\ cancelLogged)
        => /\ error.kind \in OriginalKinds
           /\ error.kind \in TransferKinds => slots[error.index].phase = "failed"
           /\ error.kind = "FinalizationError" => Len(finalizeCalls) = 1

\* C13 witness: a part exhausted its retries, the cancel request awaited by
\* the catch block failed (no abort() call was made), and upload() rejected
\* with the part's error.
C13_Witness ==
    /\ pc = "rejected"
    /\ cancelLogged
    /\ abortCalls = 0
    /\ error.kind \in TransferKinds

\* C14: provided every request eventually returns or fails, an upload()
\* call that was made eventually settles, and a settled call stays as it
\* settled: resolved with a result or rejected with an error, never both.
C14_SettlesExactlyOnce ==
    /\ (pc # "idle") ~> Settled
    /\ [][Settled => (pc' = pc /\ result' = result /\ error' = error)]_vars
    /\ [](pc = "resolved" => (result # None /\ error = NoError))
    /\ [](pc = "rejected" => (result = None /\ error # NoError))

\* C14 witness: upload() settled by rejecting after a second batch had been
\* dispatched and a part of it had used up its attempts.
C14_Witness ==
    /\ pc = "rejected"
    /\ batchI >= maxConcurrent
    /\ error.kind \in TransferKinds
    /\ error.index > maxConcurrent

\* C15: on a failing upload() the 'error' progress event is emitted before
\* upload() rejects and is the last progress event of that upload: no
\* 'uploading', 'completing' or 'completed' event follows it.  (The
\* rejection of a direct uploader that was never initialized is left out.)
C15_ErrorEventIsFinal ==
    /\ (pc = "rejected" /\ error.kind # "NotInitialized") => errorEmitted
    /\ errorEmitted => lastPhase = "error"

\* C16: in upfront mode a create-session response that lacks the session
\* id, has a token count other than totalParts, or has a token with a
\* missing field makes upload() fail with an AuthorizationError before any
\* part transfer; nothing of such a response is retained.  In a state this
\* reads: the uploader never holds a token without url, and whenever it
\* holds a session id it holds totalParts tokens for it.
C16_MalformedResponseRejected ==
    mode = "upfront"
        => /\ \A i \in DOMAIN presignedUrls : presignedUrls[i].url # NoUrl
           /\ uploadId # None
                => Len(presignedUrls) = PlannedParts(fileSize, chunkSize)
           /\ uploadId = None => (presignedUrls = <<>> /\ Dispatched = {})

SessionKinds == {"AuthorizationError", "FinalizationError"}

\* the create-session or finalize call that failed was made once
NotRetried ==
    /\ error.kind = "AuthorizationError" => (sessionCalls = 1 /\ finalizeCalls = <<>>)
    /\ error.kind = "FinalizationError" => Len(finalizeCalls) = 1

\* C17 as stated: whenever upload() fails with an AuthorizationError or a
\* FinalizationError, the failed call was not retried and a cancel call was
\* made before the error reached the caller.
C17_CancelBeforeError ==
    (pc = "rejected" /\ error.kind \in SessionKinds)
        => (NotRetried /\ Len(cancelCalls) >= 1)

\* C17 amended: whenever upload() fails with an AuthorizationError or a
\* FinalizationError, the failed call was not retried; the cancel call was
\* made before the error reached the caller when the uploader held a
\* session id, which it always does on a FinalizationError, and no cancel
\* call was made when it held none.
C17_CancelWhenSessionHeld ==
    (pc = "rejected" /\ error.kind \in SessionKinds)
        => /\ NotRetried
           /\ error.kind = "FinalizationError" => uploadId # None
           /\ uploadId # None
                => /\ Len(cancelCalls) >= 1
                   /\ abortCalls = 0 => cancelCalls = <<uploadId>>
           /\ uploadId = None => cancelCalls = <<>>

\* C17 witness: the finalize call failed, no abort() call was made, and the
\* upload was rejected after exactly one cancel call for its session.
C17_Witness ==
    /\ pc = "rejected"
    /\ error.kind = "FinalizationError"
    /\ abortCalls = 0
    /\ cancelCalls = <<uploadId>>
    /\ Len(finalizeCalls) = 1

\* the ranges of parts 1..n tile [0, fs): they start at 0, each ends where
\* the next starts, the last ends at fs, none is empty and only the last may
\* be shorter than cs
Tiles(n, cs, fs) ==
    /\ n >= 1
    /\ ChunkStart(1, cs) = 0
    /\ \A p \in 1..(n - 1) :
          /\ ChunkEnd(p, cs, fs) = ChunkStart(p + 1, cs)
          /\ ChunkEnd(p, cs, fs) - ChunkStart(p, cs) = cs
    /\ ChunkEnd(n, cs, fs) = fs
    /\ ChunkEnd(n, cs, fs) - ChunkStart(n, cs) \in 1..cs

\* C18: for fileSize > 0 and chunkSize > 0 the uploader plans exactly
\* ceil(fileSize / chunkSize) parts (the least n with n * chunkSize >=
\* fileSize), and the ranges it slices for them tile [0, fileSize) with only
\* the last part possibly shorter than chunkSize.  Stated of the uploaders
\* that plan from the file (upfront and lazy) once the parts exist.
C18_RangesTileFile ==
    (mode # "direct" /\ fileSize > 0 /\ chunkSize > 0 /\ pc \in {"transferring", "finalizing", "resolved"})
        => /\ totalParts * chunkSize >= fileSize
           /\ (totalParts - 1) * chunkSize < fileSize
           /\ Tiles(totalParts, chunkSize, fileSize)

\* C18 witness: a lazy upload of several parts whose last part is shorter
\* than chunkSize has dispatched that last part.
C18_Witness ==
    /\ mode = "lazy"
    /\ pc = "transferring"
    /\ totalParts >= 2
    /\ fileSize % chunkSize # 0
    /\ totalParts \in Dispatched

\* the part numbers of a finalize request, in the order submitted
PartNumbersOf(call) == [i \in 1..Len(call.parts) |-> call.parts[i].PartNumber]

\* C19: in every mode the part numbers transferred and the part numbers
\* submitted to finalize are exactly 1..totalParts with totalParts =
\* ceil(fileSize / chunkSize): no gap, no duplicate, none outside the range.
\* Stated of the configurations for which ceil(fileSize / chunkSize) is a
\* number (chunkSize >= 1).
C19_PartNumbersContiguous ==
    chunkSize >= 1 =>
    LET n == Ceil(fileSize, chunkSize)
    IN /\ \A k \in Dispatched : PartNumberOf(k) \in 1..n
       /\ \A j, k \in Dispatched : j # k => PartNumberOf(j) # PartNumberOf(k)
       /\ \A c \in 1..Len(finalizeCalls) :
             PartNumbersOf(finalizeCalls[c]) = [i \in 1..n |-> i]

\* C20: an upload with fileSize <= 0 or chunkSize <= 0 fails with an
\* InvalidConfigurationError: no part is transferred, no finalize call is
\* made, and the call never resolves.
C20_EmptyFileRejected ==
    (fileSize <= 0 \/ chunkSize <= 0)
        => /\ Dispatched = {}
           /\ finalizeCalls = <<>>
           /\ pc # "resolved"

\* C21: a PUT answered with a success status but no integrity tag is a
\* failed attempt under the same retry budget as any other failure, so a
\* part is never completed without a tag: every record stored and every
\* record submitted to finalize carries a non-empty ETag, and a part that
\* fails for a missing tag has used the whole budget of maxRetries attempts.
C21_MissingTagIsFailure ==
    /\ \A i \in DOMAIN partsArray : partsArray[i].ETag # <<>>
    /\ \A c \in 1..Len(finalizeCalls) :
          \A i \in 1..Len(finalizeCalls[c].parts) : finalizeCalls[c].parts[i].ETag # <<>>
    /\ \A k \in DOMAIN slots : slots[k].retries <= maxRetries
    /\ error.kind = "MissingIntegrityTagError"
          => /\ slots[error.index].phase = "failed"
             /\ slots[error.index].retries = maxRetries

\* C21 witness: with a budget of more than one attempt, a part answered
\* without a tag was tried again and its last attempt, again without a tag,
\* made upload() fail.
C21_Witness ==
    /\ maxRetries >= 2
    /\ pc = "rejected"
    /\ error.kind = "MissingIntegrityTagError"
    /\ slots[error.index].retries = maxRetries

\* C22: a part that fails k times, k within the retry budget of maxRetries
\* retries, and then succeeds has waited exactly k times, the i-th wait
\* being i x retryDelay, and is completed: no part is given up while its
\* failures are within the budget.
C22_LinearBackoffThenSuccess ==
    \A k \in DOMAIN slots :
        /\ \A i \in 1..Len(slots[k].waits) : slots[k].waits[i] = i * retryDelay
        /\ slots[k].phase = "done" => Len(slots[k].waits) = slots[k].retries
        /\ slots[k].retries <= maxRetries => slots[k].phase # "failed"

\* C23: after a part has exhausted its retries the other dispatched parts
\* are awaited: when the cancel call is issued and when upload() rejects
\* with the part's error, no part transfer is in flight.
C23_SiblingsAwaited ==
    (pc \in {"cancelling", "rejected"} /\ error.kind \in TransferKinds) => InFlight = {}

\* C24: once a cancel request has been issued for the session, by abort()
\* or by the failure path of upload(), no finalize request is issued for it.
C24_NoFinalizeAfterCancel ==
    [][finalizeCalls' # finalizeCalls => cancelCalls = <<>>]_vars

\* C25: no session state survives an upload() call: once upload() has
\* returned or thrown, no cancel and no finalize request carrying its
\* session id is sent any more.
C25_NoRequestAfterSettle ==
    [][Settled => (cancelCalls' = cancelCalls /\ finalizeCalls' = finalizeCalls)]_vars

\* C26: when several parts of a batch fail, upload() rejects with the error
\* of the part that exhausted its retries first: the error is taken when no
\* other part has been given up yet, and once taken it is never replaced.
C26_FirstFailureWins ==
    [][/\ error # NoError => error' = error
       /\ (error = NoError /\ error'.kind \in TransferKinds)
             => /\ \A j \in DOMAIN slots : slots[j].phase # "failed"
                /\ slots'[error'.index].phase = "failed"]_vars

\* C26 witness: upload() rejected with the error of one part while another
\* part of the batch has exhausted its retries as well and a third one has
\* succeeded.
C26_Witness ==
    /\ pc = "rejected"
    /\ error.kind \in TransferKinds
    /\ \E j \in DOMAIN slots : j # error.index /\ slots[j].phase = "failed"
    /\ \E j \in DOMAIN slots : slots[j].phase = "done"

\* the 0-based number of the batch that index k belongs to
BatchOf(k) == (k - 1) \div maxConcurrent

\* C27: parts are dispatched in consecutive batches of at most maxConcurrent
\* parts in ascending part order, and no part of a batch is dispatched
\* before every part of the batches before it has completed successfully.
C27_BatchAfterBatch ==
    /\ \A k \in Dispatched : \A j \in 1..(k - 1) : j \in Dispatched
    /\ \A k \in Dispatched : \A j \in DOMAIN slots :
          BatchOf(j) < BatchOf(k) => slots[j].phase = "done"
    /\ \A j, k \in DOMAIN slots : j < k => PartNumberOf(j) <= PartNumberOf(k)

\* C27 witness: the second batch is in flight, with a part of it retried,
\* after the five parts of the first batch have completed.
C27_Witness ==
    /\ pc = "transferring"
    /\ batchI = maxConcurrent
    /\ \A k \in 1..maxConcurrent : slots[k].phase = "done"
    /\ \E k \in DOMAIN slots : k > maxConcurrent /\ slots[k].phase \in InFlightPhases

\* C28: once a part has exhausted its retries, no part of a later batch is
\* ever dispatched in that upload() call.
C28_NoBatchAfterExhaustion ==
    \A j, k \in DOMAIN slots :
        (slots[j].phase = "failed" /\ BatchOf(k) > BatchOf(j)) => slots[k].phase = "pending"

\* C28 witness: a part of the first batch exhausted its retries, every
\* other part of that batch has settled, upload() has rejected, and the
\* parts of the second batch were never dispatched.
C28_Witness ==
    /\ pc = "rejected"
    /\ InFlight = {}
    /\ \E j \in 1..maxConcurrent : j \in DOMAIN slots /\ slots[j].phase = "failed"
    /\ \E k \in DOMAIN slots : k > maxConcurrent /\ slots[k].phase = "pending"

\* C29: after abort() has been called no further PUT and no further token
\* request is started for any part of the upload, retries of parts that
\* were in flight included.
C29_NoRequestAfterAbort ==
    [][aborted => \A k \in DOMAIN slots \cap DOMAIN slots' :
                     slots'[k].phase \in {"token", "put"}
                        => slots'[k].phase = slots[k].phase]_vars

\* C30: each abort() call sets aborted, issues exactly one cancel request
\* carrying the current session id when one exists and none otherwise, and
\* changes no other upload state (completion records, tokens, session id,
\* position and outcome of upload()).
C30_AbortFrame ==
    [][abortCalls' # abortCalls
          => /\ aborted'
             /\ cancelCalls' = IF uploadId # None THEN Append(cancelCalls, uploadId)
                               ELSE cancelCalls
             /\ UNCHANGED <<config, uploadId, presignedUrls, partsArray, slots, pc,
                            batchI, error, result, finalizeCalls>>]_vars

\* C30 witness: one abort() call was made while parts were in flight and
\* records were already stored; one cancel request carries the session id.
C30_Witness ==
    /\ abortCalls = 1
    /\ aborted
    /\ cancelCalls = <<uploadId>>
    /\ uploadId # None
    /\ pc = "transferring"
    /\ InFlight # {}
    /\ Completed # {}

\* C31: in lazy mode every attempt of a part starts with a token request: a
\* part just dispatched and a part whose backoff is over are waiting for a
\* token, a transfer is only entered from the token request of the same
\* attempt, and a token request that ends without a token counts one attempt
\* and is followed by the backoff of a failed transfer, or by the failure of
\* the part when the attempts are used up.
C31_TokenBeforeEveryAttempt ==
    [][mode = "lazy"
          => /\ slots = <<>> => \A k \in DOMAIN slots' : slots'[k].phase # "put"
             /\ \A k \in DOMAIN slots \cap DOMAIN slots' :
                   /\ (slots'[k].phase = "put" /\ slots[k].phase # "put")
                         => slots[k].phase = "token"
                   /\ (slots[k].phase \in {"pending", "wait"}
                          /\ slots'[k].phase \notin {"pending", "wait", "refused"})
                         => slots'[k].phase = "token"
                   /\ (slots[k].phase = "token" /\ slots'[k].phase \notin {"token", "put"})
                         => /\ slots'[k].retries = slots[k].retries + 1
                            /\ IF slots'[k].retries >= maxRetries
                               THEN slots'[k].phase = "failed"
                               ELSE /\ slots'[k].phase = "wait"
                                    /\ slots'[k].waits =
                                         Append(slots[k].waits,
                                                retryDelay * slots'[k].retries)]_vars

\* C31 witness: a lazy part whose first attempt failed has waited retryDelay
\* and is asking for the token of its second attempt.
C31_Witness ==
    /\ mode = "lazy"
    /\ pc = "transferring"
    /\ \E k \in DOMAIN slots :
          /\ slots[k].phase = "token"
          /\ slots[k].retries = 1
          /\ slots[k].waits = <<retryDelay>>

\* C32: in upfront mode one create-session request is made per upload(), a
\* part is dispatched only once that request has returned a session id and a
\* list that passed the count check (as many tokens as the file has parts),
\* and no part ever asks for a token of its own.
C32_UpfrontTokensFirst ==
    mode = "upfront"
       => /\ sessionCalls = (IF pc = "idle" THEN 0 ELSE 1)
          /\ \A k \in DOMAIN slots : slots[k].phase # "token"
          /\ Dispatched # {}
                => /\ uploadId # None
                   /\ Len(presignedUrls) = PlannedParts(fileSize, chunkSize)
                   /\ totalParts = Len(presignedUrls)

\* C32 witness: an upfront upload of several parts is transferring and has
\* retried a part, still with the single create-session request it began with.
C32_Witness ==
    /\ mode = "upfront"
    /\ pc = "transferring"
    /\ sessionCalls = 1
    /\ totalParts >= 2
    /\ \E k \in DOMAIN slots : slots[k].phase = "put" /\ slots[k].retries >= 1

\* C33: in upfront mode the part dispatched at index k, which carries the
\* bytes of part k, is written with the token whose partNumber is k, and
\* every completion record sits at its own part number.
C33_PartUsesOwnToken ==
    mode = "upfront"
       => /\ \A k \in Dispatched : presignedUrls[k].partNumber = PartNumberOf(k)
          /\ \A i \in DOMAIN partsArray : partsArray[i].PartNumber = i + 1

\* the n ranges sliced with chunk size cs cover [0, fs) one after the other
\* and none of them is empty
TilesNonEmpty(n, cs, fs) ==
    /\ ChunkStart(1, cs) = 0
    /\ \A p \in 1..(n - 1) : ChunkEnd(p, cs, fs) = ChunkStart(p + 1, cs)
    /\ ChunkEnd(n, cs, fs) = fs
    /\ \A p \in 1..n : ChunkStart(p, cs) < ChunkEnd(p, cs, fs)

\* C34: when the chunk size of the direct uploader is ceil(fileSize / N) for
\* the N tokens it was given, 1 <= N <= fileSize, the N ranges it slices tile
\* [0, fileSize) and every one of them is non-empty.
C34_DerivedChunksTile ==
    (/\ mode = "direct"
     /\ uploadId # None
     /\ Len(presignedUrls) >= 1
     /\ Len(presignedUrls) <= fileSize
     /\ chunkSize = DerivedChunkSize(fileSize, Len(presignedUrls)))
       => TilesNonEmpty(Len(presignedUrls), chunkSize, fileSize)

\* C35: an error raised by the onProgress callback is swallowed: upload()
\* never rejects with it, no part fails because of it (a part fails only
\* when its attempts are used up), and no cancel request follows a finalize
\* request that succeeded.
C35_CallbackErrorSwallowed ==
    /\ error.kind # "CallbackError"
    /\ \A k \in DOMAIN slots :
          slots[k].phase = "failed" => slots[k].retries >= maxRetries

\* C36: every 'uploading' event reports completedCount / totalParts * 100,
\* completedCount being the number of distinct part numbers completed so
\* far, between 0 and totalParts; 'completing' reports 95 and 'completed'
\* reports 100.
C36_ProgressValues ==
    /\ lastPhase = "uploading"
          => LET completedCount == Cardinality({PartNumberOf(k) : k \in Completed})
             IN /\ totalParts >= 1
                /\ completedCount \in 0..totalParts
                /\ progress.num * totalParts = completedCount * 100 * progress.den
    /\ lastPhase = "completing" => progress = Fixed(95)
    /\ lastPhase = "completed" => progress = Fixed(100)

\* C36 witness: two of three parts are stored, the third is still being
\* transferred, and the last event reported 200/3 percent.
C36_Witness ==
    /\ pc = "transferring"
    /\ lastPhase = "uploading"
    /\ totalParts = 3
    /\ Cardinality(Completed) = 2
    /\ InFlight # {}
    /\ progress = [num |-> 200, den |-> 3]

\* C37 (as stated): over the progress events of a successful upload() no
\* event reports less than the event before it.
C37_ProgressNeverDecreases ==
    pc = "resolved" => progressDrops = {}

\* C37 (amended): over the progress events of a successful upload() the only
\* event that reports less than the one before it is 'completing', which
\* reports 95 after the 'uploading' event of the last part reported 100; it
\* does so whenever there is at least one part and every part has a record
\* of its own.
C37_ProgressDropsOnlyAtCompleting ==
    pc = "resolved"
       => progressDrops =
             (IF totalParts >= 1 /\ Len(FilterDefined(partsArray)) = totalParts
              THEN {"completing"} ELSE {})

\* C37 witness: an upload of three parts has resolved, its events rose from 0
\* to 100 over the parts, fell to 95 at 'completing' and ended at 100.
C37_Witness ==
    /\ pc = "resolved"
    /\ totalParts = 3
    /\ progressDrops = {"completing"}
    /\ progress = Fixed(100)

\* the events of log that came before the first 'error' event
RECURSIVE BeforeError(_)
BeforeError(log) ==
    IF log = <<>> \/ Head(log) = "error" THEN <<>>
    ELSE <<Head(log)>> \o BeforeError(Tail(log))

IsPrefix(a, b) == Len(a) <= Len(b) /\ a = SubSeq(b, 1, Len(a))

\* what the steps of an upload() establish about its events: up to an
\* 'error' event the phases follow the order canon; 'completing' is emitted
\* when every part is done and no finalize request has been sent yet, and
\* 'completed' when the finalize request has succeeded
PhaseOrder(canon) ==
    /\ IsPrefix(BeforeError(phaseLog'), canon)
    /\ (lastPhase' = "completing" /\ lastPhase # "completing")
          => /\ finalizeCalls = <<>>
             /\ \A k \in DOMAIN slots' : slots'[k].phase = "done"
    /\ (lastPhase' = "completed" /\ lastPhase # "completed")
          => /\ lastPhase = "completing"
             /\ pc = "finalizing"
             /\ pc' = "resolved"
             /\ Len(finalizeCalls) = 1

\* C38 (as stated): the progress events of an upload() follow the phase
\* order initiating, uploading (one or more), completing, completed, with
\* 'completing' after all parts and before the finalize request and
\* 'completed' after the finalize request succeeded.
C38_PhaseOrder ==
    [][PhaseOrder(<<"initiating", "uploading", "completing", "completed">>)]_vars

\* C38 (amended): the same, the events of the direct uploader beginning with
\* 'uploading', since it has no session to initiate.
C38_PhaseOrderPerMode ==
    [][PhaseOrder(IF mode = "direct"
                  THEN <<"uploading", "completing", "completed">>
                  ELSE <<"initiating", "uploading", "completing", "completed">>)]_vars

\* C38 witness: a lazy upload of several parts has resolved after events of
\* all four phases.
C38_Witness ==
    /\ mode = "lazy"
    /\ pc = "resolved"
    /\ totalParts >= 2
    /\ phaseLog = <<"initiating", "uploading", "completing", "completed">>

\* C39: a completion record is kept under its part number, so a second
\* record for a part number takes the place of the first, and no list
\* submitted to finalize holds a part number twice.
C39_OneRecordPerPartNumber ==
    /\ \A i \in DOMAIN partsArray : partsArray[i].PartNumber = i + 1
    /\ \A c \in DOMAIN finalizeCalls :
          \A i, j \in DOMAIN finalizeCalls[c].parts :
             finalizeCalls[c].parts[i].PartNumber = finalizeCalls[c].parts[j].PartNumber
                => i = j

\* C39 witness: the direct uploader was handed two tokens numbered 1, both
\* transfers delivered a record, and the finalize request lists part 1 once.
C39_Witness ==
    /\ mode = "direct"
    /\ presignedUrls = DupTokens
    /\ \A k \in DOMAIN slots : slots[k].phase = "done"
    /\ Len(slots) = 2
    /\ DOMAIN partsArray = {0}
    /\ Len(finalizeCalls) = 1
    /\ PartNumbersOf(finalizeCalls[1]) = <<1>>

\* C40: the upfront create-session handler either returns the session id
\* with exactly totalParts tokens numbered 1..totalParts in ascending order,
\* or cancels the multipart upload it created before it reports the error:
\* when the call is over, a multipart upload it created is still open only
\* if its id was returned.
C40_SessionReturnedOrCancelled ==
    /\ (server.pc = "returned" /\ server.response.statusCode = 200)
          => /\ server.response.uploadId # None
             /\ server.response.presignedUrls = AscTokens(server.totalParts)
    /\ (server.pc \in {"returned", "threw"} /\ server.open)
          => /\ server.response.statusCode = 200
             /\ server.response.uploadId = server.uploadId

====
